---- MODULE Spec2Model ----
(***************************************************************************)
(* Model of the HTTP gateway of src/server.js: the Express middleware      *)
(* chain (cors, preflight handler, rate limiter, body parsers), the route  *)
(* handlers that forward to the payment provider, the webhook handler, the *)
(* final error-handling layer and the 404 handler.                         *)
(*                                                                         *)
(* One request is handled per step; the step records the request, the     *)
(* response, the provider calls made while handling it, the route handler  *)
(* that ran and the webhook event type the dispatch switch saw.            *)
(***************************************************************************)
EXTENDS Integers, Sequences, FiniteSets, TLC

\* ------------------------------------------------------------------------
\* IEEE-754 binary64 arithmetic of  Math.round(amount * 100)
\*
\* A request amount is a JSON decimal with three fractional digits, written
\* here as its number of thousandths ("milli").  JSON.parse turns it into the
\* nearest double; amount * 100 is a double multiplication (exact product,
\* rounded to nearest, ties to even); Math.round rounds to the nearest
\* integer, ties towards +infinity.  A positive double is the record
\*   [exp |-> e, mant |-> <<b1, ..., b53>>]    with b1 = 1,
\* whose value is  sum of b_i * 2^(e - i + 1).
\* ------------------------------------------------------------------------

\* Number of significand bits of a binary64 number.
MantBits == 53

RECURSIVE Pow2(_)
Pow2(n) == IF n = 0 THEN 1 ELSE 2 * Pow2(n - 1)

\* Exponent of the leading bit of the positive rational num/den.
RECURSIVE LeadExp(_, _)
LeadExp(num, den) ==
    IF num >= 2 * den THEN 1 + LeadExp(num, 2 * den)
    ELSE IF num < den THEN LeadExp(2 * num, den) - 1
    ELSE 0

\* The next k binary digits of r/den (0 <= r < den), most significant first.
RECURSIVE FracBits(_, _, _)
FracBits(r, den, k) ==
    IF k = 0 THEN <<>>
    ELSE LET b == IF 2 * r >= den THEN 1 ELSE 0
         IN  <<b>> \o FracBits(2 * r - b * den, den, k - 1)

\* The remainder left after those k digits.
RECURSIVE FracRem(_, _, _)
FracRem(r, den, k) ==
    IF k = 0 THEN r
    ELSE LET b == IF 2 * r >= den THEN 1 ELSE 0
         IN  FracRem(2 * r - b * den, den, k - 1)

\* bits + 1 on a most-significant-first bit string (same length; an
\* all-ones string wraps to all zeros, which the caller detects).
RECURSIVE IncBits(_)
IncBits(bits) ==
    IF bits = <<>> THEN <<>>
    ELSE LET n == Len(bits)
         IN  IF bits[n] = 0 THEN SubSeq(bits, 1, n - 1) \o <<1>>
             ELSE IncBits(SubSeq(bits, 1, n - 1)) \o <<0>>

\* Round-to-nearest-even of a significand given its kept bits and whether the
\* discarded part is above (1), equal to (0) or below (-1) one half ulp.
RoundEven(e, kept, cmpHalf) ==
    LET up == cmpHalf > 0 \/ (cmpHalf = 0 /\ kept[Len(kept)] = 1)
        inc == IncBits(kept)
    IN  IF ~up THEN [exp |-> e, mant |-> kept]
        ELSE IF inc[1] = 0
             THEN [exp |-> e + 1, mant |-> <<1>> \o SubSeq(inc, 1, Len(inc) - 1)]
             ELSE [exp |-> e, mant |-> inc]

\* JSON.parse of the decimal milli/1000 (milli > 0): the nearest double.
ToDouble(milli) ==
    LET e    == LeadExp(milli, 1000)
        num  == IF e < 0 THEN milli * Pow2(-e) ELSE milli
        den  == IF e < 0 THEN 1000 ELSE 1000 * Pow2(e)
        r0   == num - den
        kept == <<1>> \o FracBits(r0, den, MantBits - 1)
        rem  == FracRem(r0, den, MantBits - 1)
        cmp  == IF 2 * rem > den THEN 1 ELSE IF 2 * rem = den THEN 0 ELSE -1
    IN  RoundEven(e, kept, cmp)

Reverse(s) == [i \in 1..Len(s) |-> s[Len(s) - i + 1]]

\* Binary digits of a natural number, least significant first.
RECURSIVE NatBitsLSB(_)
NatBitsLSB(n) == IF n = 0 THEN <<>> ELSE <<n % 2>> \o NatBitsLSB(n \div 2)

\* c times a bit string (least significant first), with carry.
RECURSIVE MulSmall(_, _, _)
MulSmall(lsb, c, carry) ==
    IF lsb = <<>> THEN NatBitsLSB(carry)
    ELSE LET acc == c * Head(lsb) + carry
         IN  <<acc % 2>> \o MulSmall(Tail(lsb), c, acc \div 2)

\* Compare a discarded bit string (most significant first) with one half ulp.
CmpHalf(rest) ==
    IF rest = <<>> \/ rest[1] = 0 THEN
        (IF \E i \in 1..Len(rest) : rest[i] = 1 THEN -1 ELSE -2)
    ELSE IF \E i \in 2..Len(rest) : rest[i] = 1 THEN 1 ELSE 0

\* The double product d * c for a small natural c >= 1.
MulDouble(d, c) ==
    LET prod == Reverse(MulSmall(Reverse(d.mant), c, 0))
        n    == Len(prod)
        kept == SubSeq(prod, 1, MantBits)
        rest == SubSeq(prod, MantBits + 1, n)
    IN  RoundEven(d.exp + (n - MantBits), kept, CmpHalf(rest))

\* Value of a most-significant-first bit string.
RECURSIVE BitsToNat(_)
BitsToNat(bits) ==
    IF bits = <<>> THEN 0
    ELSE 2 * BitsToNat(SubSeq(bits, 1, Len(bits) - 1)) + bits[Len(bits)]

\* Math.round of a positive double below 2^52: the integer part plus the
\* one-half bit (ties go up).
MathRound(d) ==
    IF d.exp < -1 THEN 0
    ELSE IF d.exp = -1 THEN 1
    ELSE BitsToNat(SubSeq(d.mant, 1, d.exp + 1)) + d.mant[d.exp + 2]



\* ------------------------------------------------------------------------
\* Requests
\* ------------------------------------------------------------------------

Clients == {"c1", "c2"}

Methods == {"GET", "POST", "PUT", "DELETE", "OPTIONS"}

WebhookPath == "/api/webhooks/stripe"

\* Paths mounted under /api/ (the rate limiter's mount point).
ApiPaths == {"/api/test-cors", "/api/create-payment-intent",
             "/api/create-subscription", "/api/create-customer",
             "/api/customer/a@x.io", "/api/cancel-subscription",
             WebhookPath, "/api/nope"}

Paths == ApiPaths \cup {"/health", "/nope"}

\* The allow-list given to cors().
AllowedOrigins == {"http://localhost:3000", "http://localhost:8080",
                   "https://vibebeads.net", "https://www.vibebeads.net"}

\* Origin headers tried: absent, one on the allow-list, one not on it.
Origins == {"none", "https://vibebeads.net", "https://evil.example"}

\* Values of NODE_ENV the process may be started with.
EnvValues == {"unset", "development", "production", "test"}

\* Amounts tried, in thousandths of a major unit.
Amounts == {-1000, 0, 1, 490, 499, 500, 505, 510, 565, 570, 575, 1000,
            1005, 2675, 10000}

\* The doubles JSON.parse yields for the positive amounts tried.
DoubleOf == [m \in {a \in Amounts : a > 0} |-> ToDouble(m)]

\* amount * 100 for them.
TimesHundred == [m \in DOMAIN DoubleOf |-> MulDouble(DoubleOf[m], 100)]

\* The number of minor units  Math.round(amount * 100)  sent for an amount.
ToCents(milli) == MathRound(TimesHundred[milli])

AbsentAmount == [present |-> FALSE, milli |-> 0]

AmountInputs == {AbsentAmount} \cup {[present |-> TRUE, milli |-> m] : m \in Amounts}

\* Ids the provider may assign.
ProviderIds == {"id_A", "id_B"}

EventTypes == {"payment_intent.succeeded", "payment_intent.payment_failed",
               "customer.subscription.created", "customer.subscription.updated",
               "customer.subscription.deleted", "invoice.payment_succeeded",
               "invoice.payment_failed"}

\* An event type the switch has no case for.
UnknownEventType == "charge.refunded"

Signatures == {"missing", "invalid", "valid"}

\* The route table: the handler registered for a method and path, if any.
MatchRoute(method, path) ==
    CASE method = "GET"  /\ path = "/health"                    -> "health"
      [] method = "GET"  /\ path = "/api/test-cors"             -> "testCors"
      [] method = "POST" /\ path = "/api/create-payment-intent" -> "createPaymentIntent"
      [] method = "POST" /\ path = "/api/create-subscription"   -> "createSubscription"
      [] method = "POST" /\ path = "/api/create-customer"       -> "createCustomer"
      [] method = "GET"  /\ path = "/api/customer/a@x.io"       -> "getCustomer"
      [] method = "POST" /\ path = "/api/cancel-subscription"   -> "cancelSubscription"
      [] method = "POST" /\ path = WebhookPath                  -> "webhook"
      [] OTHER -> "none"

Request(c, method, path, origin, body, args) ==
    [client |-> c, method |-> method, path |-> path, origin |-> origin,
     body |-> body, args |-> args]

NoArgs == [none |-> TRUE]

\* ------------------------------------------------------------------------
\* Responses
\* ------------------------------------------------------------------------

RateLimitMessage == "Too many requests from this IP, please try again later."

GenericMessage == "Something went wrong"

ProviderError == "provider error"

ParseErrorMessage == "Unexpected token in JSON"

Response(status, body, error, message, id) ==
    [status |-> status, body |-> body, error |-> error, message |-> message,
     id |-> id, environment |-> "none", acao |-> "none", corsHeaders |-> FALSE]

NoResponse == Response(0, "none", "none", "none", "none")

\* A provider call: the operation, its main argument, the amount sent (-1 when
\* it takes none), whether it succeeded and the id the provider returned.
Call(op, arg, amount, ok, returned) ==
    [op |-> op, arg |-> arg, amount |-> amount, ok |-> ok, returned |-> returned]

Out(res, calls, handler, dispatched) ==
    [res |-> res, calls |-> calls, handler |-> handler, dispatched |-> dispatched]

\* ------------------------------------------------------------------------
\* Middleware
\* ------------------------------------------------------------------------

\* rateLimit({max: 100}): requests counted per client and window.
RateMax == 100

\* Requests one client may send to /api/ within one window of the model.
HitsCap == 102

\* cors({origin: [...], credentials: true, optionsSuccessStatus: 200}) on a
\* request that is not a preflight: the Origin is reflected when it is on the
\* allow-list, and the request goes on down the chain.
CorsHeaders(res, origin) ==
    [res EXCEPT !.acao = IF origin \in AllowedOrigins THEN origin ELSE "none"]

\* cors() on an OPTIONS request: preflightContinue is not set, so the
\* middleware itself ends the response with optionsSuccessStatus and the
\* preflight headers; Access-Control-Allow-Origin is sent only for an Origin
\* on the allow-list.
CorsPreflight(origin) ==
    [ended |-> TRUE,
     res   |-> [CorsHeaders(Response(200, "empty", "none", "none", "none"), origin)
                   EXCEPT !.corsHeaders = TRUE]]

\* app.options('*'): echoes the Origin header whatever it is.
OptionsHandler(origin) ==
    [Response(200, "text", "none", "OK", "none")
        EXCEPT !.acao = IF origin = "none" THEN "undefined" ELSE origin,
               !.corsHeaders = TRUE]

\* A limiter that rejects from the max-th request on.
LimiterRejectsAtMax(count) == count >= RateMax

\* The limiter counts the request, then rejects it when the count exceeds max.
LimiterRejects(count) == count > RateMax

TooManyRequests ==
    Out(Response(429, "text", "none", RateLimitMessage, "none"), <<>>, "limiter", "none")

\* The final error-handling middleware.
ErrorHandler(environment, message) ==
    Out(Response(500, "error", "Internal server error",
                 IF environment = "development" THEN message ELSE GenericMessage,
                 "none"),
        <<>>, "errorHandler", "none")

\* The 404 handler.
NotFoundHandler ==
    Out(Response(404, "error", "Route not found", "none", "none"),
        <<>>, "notFound", "none")

\* ------------------------------------------------------------------------
\* Route handlers.  Each yields the response, the provider calls made, the
\* handler's name and the event type the webhook switch dispatched on.
\* ------------------------------------------------------------------------

HealthHandler(environment) ==
    Out([Response(200, "health", "none", "none", "none")
            EXCEPT !.environment = IF environment = "unset" THEN "development"
                                   ELSE environment],
        <<>>, "health", "none")

TestCorsHandler(origin) ==
    Out(Response(200, "cors-test", "none", "CORS is working!", origin),
        <<>>, "testCors", "none")

\* amount < 0.50 on the parsed double: 0.5 is the double with leading
\* exponent -1 and no other bit set.
LessThanHalf(milli) == milli <= 0 \/ DoubleOf[milli].exp < -1

\* A validation that rejects only amounts that are absent, zero or negative.
InvalidAmountOnlyNonPositive(a) == ~a.present \/ a.milli <= 0

\* !amount || amount < 0.50
InvalidAmount(a) == ~a.present \/ a.milli = 0 \/ LessThanHalf(a.milli)

\* outcome: "ok" or "fail", the provider's answer; pid: the id it assigns.
CreatePaymentIntentHandler(a, outcome, pid) ==
    IF InvalidAmount(a)
    THEN Out(Response(400, "error", "Invalid amount. Minimum amount is $0.50",
                      "none", "none"),
             <<>>, "createPaymentIntent", "none")
    ELSE LET call == Call("paymentIntents.create", "usd", ToCents(a.milli),
                          outcome = "ok", IF outcome = "ok" THEN pid ELSE "none")
         IN  IF outcome = "ok"
             THEN Out(Response(200, "paymentIntent", "none", "none", call.returned),
                      <<call>>, "createPaymentIntent", "none")
             ELSE Out(Response(500, "error", "Failed to create payment intent",
                               ProviderError, "none"),
                      <<call>>, "createPaymentIntent", "none")

\* A handler that goes on to the next provider call after a failed one.
CreateSubscriptionHandlerGoesOn(args, fails, sid) ==
    LET attach == Call("paymentMethods.attach", args.paymentMethodId, -1,
                       fails # "attach", "none")
        update == Call("customers.update", args.customerId, -1, fails # "update",
                       "none")
        create == Call("subscriptions.create", args.customerId, -1,
                       fails # "create", IF fails # "create" THEN sid ELSE "none")
        all    == IF args.paymentMethodId = "" THEN <<create>>
                  ELSE <<attach, update, create>>
    IN  IF args.customerId = "" \/ args.priceId = ""
        THEN Out(Response(400, "error", "Customer ID and Price ID are required",
                          "none", "none"),
                 <<>>, "createSubscription", "none")
        ELSE IF fails = "none"
        THEN Out(Response(200, "subscription", "none", "none", create.returned),
                 all, "createSubscription", "none")
        ELSE Out(Response(500, "error", "Failed to create subscription",
                          ProviderError, "none"),
                 all, "createSubscription", "none")

\* fails: the provider call that fails ("none": all succeed; "shape": the
\* subscription comes back without latest_invoice.payment_intent).
CreateSubscriptionHandler(args, fails, sid) ==
    LET failed(cs) == Out(Response(500, "error", "Failed to create subscription",
                                   ProviderError, "none"),
                          cs, "createSubscription", "none")
        attach == Call("paymentMethods.attach", args.paymentMethodId, -1,
                       fails # "attach", "none")
        update == Call("customers.update", args.customerId, -1, fails # "update",
                       "none")
        create == Call("subscriptions.create", args.customerId, -1,
                       fails # "create", IF fails # "create" THEN sid ELSE "none")
        before == IF args.paymentMethodId = "" THEN <<>>
                  ELSE IF ~attach.ok THEN <<attach>>
                  ELSE <<attach, update>>
    IN  IF args.customerId = "" \/ args.priceId = ""
        THEN Out(Response(400, "error", "Customer ID and Price ID are required",
                          "none", "none"),
                 <<>>, "createSubscription", "none")
        ELSE IF before # <<>> /\ ~before[Len(before)].ok THEN failed(before)
        ELSE IF ~create.ok THEN failed(before \o <<create>>)
        ELSE IF fails = "shape" THEN failed(before \o <<create>>)
        ELSE Out(Response(200, "subscription", "none", "none", create.returned),
                 before \o <<create>>, "createSubscription", "none")

\* A handler that forwards to the provider without checking the email.
CreateCustomerHandlerUnchecked(email, outcome, cid) ==
    LET call == Call("customers.create", email, -1, outcome = "ok",
                     IF outcome = "ok" THEN cid ELSE "none")
    IN  IF outcome = "ok"
        THEN Out(Response(200, "customer", "none", "none", call.returned),
                 <<call>>, "createCustomer", "none")
        ELSE Out(Response(500, "error", "Failed to create customer",
                          ProviderError, "none"),
                 <<call>>, "createCustomer", "none")

CreateCustomerHandler(email, outcome, cid) ==
    IF email = ""
    THEN Out(Response(400, "error", "Email is required", "none", "none"),
             <<>>, "createCustomer", "none")
    ELSE LET call == Call("customers.create", email, -1, outcome = "ok",
                          IF outcome = "ok" THEN cid ELSE "none")
         IN  IF outcome = "ok"
             THEN Out(Response(200, "customer", "none", "none", call.returned),
                      <<call>>, "createCustomer", "none")
             ELSE Out(Response(500, "error", "Failed to create customer",
                               ProviderError, "none"),
                      <<call>>, "createCustomer", "none")

\* outcome: "found", "empty" (no customer matches) or "fail".
GetCustomerHandler(email, outcome, cid) ==
    LET call == Call("customers.list", email, -1, outcome # "fail",
                     IF outcome = "found" THEN cid ELSE "none")
    IN  CASE outcome = "found" ->
               Out(Response(200, "customer", "none", "none", call.returned),
                   <<call>>, "getCustomer", "none")
          [] outcome = "empty" ->
               Out(Response(404, "error", "Customer not found", "none", "none"),
                   <<call>>, "getCustomer", "none")
          [] OTHER ->
               Out(Response(500, "error", "Failed to retrieve customer",
                            ProviderError, "none"),
                   <<call>>, "getCustomer", "none")

CancelSubscriptionHandler(subscriptionId, outcome) ==
    IF subscriptionId = ""
    THEN Out(Response(400, "error", "Subscription ID is required", "none", "none"),
             <<>>, "cancelSubscription", "none")
    ELSE LET call == Call("subscriptions.update", subscriptionId, -1,
                          outcome = "ok",
                          IF outcome = "ok" THEN subscriptionId ELSE "none")
         IN  IF outcome = "ok"
             THEN Out(Response(200, "cancel", "none", "none", call.returned),
                      <<call>>, "cancelSubscription", "none")
             ELSE Out(Response(500, "error", "Failed to cancel subscription",
                               ProviderError, "none"),
                      <<call>>, "cancelSubscription", "none")

\* stripe.webhooks.constructEvent: raises unless the signature verifies.
VerifyError(sig) ==
    CASE sig = "missing" -> "No stripe-signature header value was provided."
      [] sig = "invalid" -> "No signatures found matching the expected signature for payload."
      [] OTHER -> "none"

\* The switch on event.type: every case, and the default, only logs.
Dispatch(type) == IF type \in EventTypes THEN type ELSE "default"

\* A handler that dispatches whether or not the signature verified.
WebhookHandlerUnverified(sig, type) ==
    Out(Response(200, "received", "none", "none", "none"),
        <<Call("webhooks.constructEvent", sig, -1, sig = "valid", "none")>>,
        "webhook", Dispatch(type))

\* A handler whose default case rejects the event.
WebhookHandlerRejectsUnknown(sig, type) ==
    LET verify == Call("webhooks.constructEvent", sig, -1, sig = "valid", "none")
    IN  IF ~verify.ok
        THEN Out(Response(400, "text", "Webhook Error", VerifyError(sig), "none"),
                 <<verify>>, "webhook", "none")
        ELSE IF type \notin EventTypes
        THEN Out(Response(400, "text", "Unhandled event type", "none", "none"),
                 <<verify>>, "webhook", "default")
        ELSE Out(Response(200, "received", "none", "none", "none"),
                 <<verify>>, "webhook", Dispatch(type))

WebhookHandler(sig, type) ==
    LET verify == Call("webhooks.constructEvent", sig, -1, sig = "valid", "none")
    IN  IF ~verify.ok
        THEN Out(Response(400, "text", "Webhook Error", VerifyError(sig), "none"),
                 <<verify>>, "webhook", "none")
        ELSE Out(Response(200, "received", "none", "none", "none"),
                 <<verify>>, "webhook", Dispatch(type))

\* ------------------------------------------------------------------------
\* State
\* ------------------------------------------------------------------------

VARIABLES
    env,        \* NODE_ENV of the process
    hits,       \* the limiter's count of each client in its current window
    req,        \* the request handled last
    res,        \* the response sent to it
    calls,      \* the provider calls made while handling it, in order
    handler,    \* the layer or route handler that answered it
    dispatched  \* the case of the webhook switch it reached, or "none"

vars == <<env, hits, req, res, calls, handler, dispatched>>

NoRequest == Request("none", "none", "none", "none", "none", NoArgs)

Init ==
    /\ env \in EnvValues
    /\ hits = [c \in Clients |-> 0]
    /\ req = NoRequest
    /\ res = NoResponse
    /\ calls = <<>>
    /\ handler = "none"
    /\ dispatched = "none"

\* A chain with no 404 handler registered: Express's own final handler answers.
ChainWithoutNotFound(count, environment, rq, out) ==
    IF rq.path \in ApiPaths /\ LimiterRejects(count) THEN TooManyRequests
    ELSE IF rq.body = "malformed" /\ rq.path # WebhookPath
         THEN ErrorHandler(environment, ParseErrorMessage)
    ELSE IF MatchRoute(rq.method, rq.path) = "none"
         THEN Out(Response(404, "text", "none", "Cannot find route", "none"),
                  <<>>, "finalhandler", "none")
    ELSE out

\* A request that is not a preflight goes down the chain: cors, the limiter
\* (paths under /api/ only), the body parsers, then the matching route
\* handler, whose result is `out`, or the 404 handler when no route matches.
\* A body the JSON parser rejects goes to the error-handling middleware.
Chain(count, environment, rq, out) ==
    IF rq.path \in ApiPaths /\ LimiterRejects(count) THEN TooManyRequests
    ELSE IF rq.body = "malformed" /\ rq.path # WebhookPath
         THEN ErrorHandler(environment, ParseErrorMessage)
    ELSE IF MatchRoute(rq.method, rq.path) = "none" THEN NotFoundHandler
    ELSE out

\* The limiter's store after the request: one more for the client when the
\* path is under /api/.
Counted(h, c, path) == IF path \in ApiPaths THEN [h EXCEPT ![c] = @ + 1] ELSE h

Serve(c, rq, out) ==
    /\ rq.method # "OPTIONS"
    /\ rq.path \in ApiPaths => hits[c] < HitsCap
    /\ hits' = Counted(hits, c, rq.path)
    /\ req' = rq
    /\ \E answered \in {Chain(hits'[c], env, rq, out)} :
          /\ res' = CorsHeaders(answered.res, rq.origin)
          /\ calls' = answered.calls
          /\ handler' = answered.handler
          /\ dispatched' = answered.dispatched
    /\ UNCHANGED env

\* An OPTIONS request: cors answers it; were it to pass it on, the explicit
\* app.options('*') handler would.  Either way it ends before the limiter.
Preflight(c, path, origin) ==
    LET pre == CorsPreflight(origin)
    IN  /\ req' = Request(c, "OPTIONS", path, origin, "none", NoArgs)
        /\ res' = IF pre.ended THEN pre.res ELSE OptionsHandler(origin)
        /\ handler' = IF pre.ended THEN "cors" ELSE "options"
        /\ calls' = <<>>
        /\ dispatched' = "none"
        /\ UNCHANGED <<env, hits>>

Health(c) ==
    Serve(c, Request(c, "GET", "/health", "none", "none", NoArgs),
          HealthHandler(env))

TestCors(c, origin) ==
    Serve(c, Request(c, "GET", "/api/test-cors", origin, "none", NoArgs),
          TestCorsHandler(origin))

CreatePaymentIntent(c, a, outcome) ==
    Serve(c, Request(c, "POST", "/api/create-payment-intent", "none", "ok",
                     [amount |-> a]),
          CreatePaymentIntentHandler(a, outcome, "id_A"))

SubscriptionArgs ==
    [customerId : {"", "cus_1"}, priceId : {"", "price_1"},
     paymentMethodId : {"", "pm_1"}]

CreateSubscription(c, args, fails) ==
    Serve(c, Request(c, "POST", "/api/create-subscription", "none", "ok", args),
          CreateSubscriptionHandler(args, fails, "id_A"))

CreateCustomer(c, email, outcome, cid) ==
    Serve(c, Request(c, "POST", "/api/create-customer", "none", "ok",
                     [email |-> email]),
          CreateCustomerHandler(email, outcome, cid))

GetCustomer(c, outcome, cid) ==
    Serve(c, Request(c, "GET", "/api/customer/a@x.io", "none", "none",
                     [email |-> "a@x.io"]),
          GetCustomerHandler("a@x.io", outcome, cid))

CancelSubscription(c, subscriptionId, outcome) ==
    Serve(c, Request(c, "POST", "/api/cancel-subscription", "none", "ok",
                     [subscriptionId |-> subscriptionId]),
          CancelSubscriptionHandler(subscriptionId, outcome))

Webhook(c, sig, type) ==
    Serve(c, Request(c, "POST", WebhookPath, "none", "raw",
                     [sig |-> sig, type |-> type]),
          WebhookHandler(sig, type))

\* A request no route matches.
Unmatched(c, method, path) ==
    /\ MatchRoute(method, path) = "none"
    /\ Serve(c, Request(c, method, path, "none", "ok", NoArgs), NotFoundHandler)

\* A request whose JSON body does not parse (the webhook path takes the body
\* raw and never parses it).
BadBody(c, method, path) ==
    /\ method \in {"POST", "PUT", "DELETE"}
    /\ path # WebhookPath
    /\ Serve(c, Request(c, method, path, "none", "malformed", NoArgs),
             NotFoundHandler)

\* The limiter's window of a client ends: its count starts again.
WindowExpires(c) ==
    /\ hits[c] > 0
    /\ hits' = [hits EXCEPT ![c] = 0]
    /\ UNCHANGED <<env, req, res, calls, handler, dispatched>>

\* The clients that send requests under Spec.
MainClients == {"c1"}

\* Requests to /api/ one client sends within one window under Spec.
Burst == 3

\* The client has requests left in its window under Spec.
Within(c) == hits[c] < Burst

\* Spec: one client sends every kind of request to every route, a few per
\* window, so that the limiter admits them.
Next ==
    \E c \in MainClients :
        \/ \E p \in Paths, o \in Origins : Within(c) /\ Preflight(c, p, o)
        \/ Within(c) /\ Health(c)
        \/ \E o \in Origins : Within(c) /\ TestCors(c, o)
        \/ \E a \in AmountInputs, r \in {"ok", "fail"} :
                Within(c) /\ CreatePaymentIntent(c, a, r)
        \/ \E args \in SubscriptionArgs,
              f \in {"none", "attach", "update", "create", "shape"} :
                Within(c) /\ CreateSubscription(c, args, f)
        \/ \E e \in {"", "a@x.io"}, r \in {"ok", "fail"}, id \in ProviderIds :
                Within(c) /\ CreateCustomer(c, e, r, id)
        \/ \E r \in {"found", "empty", "fail"}, id \in ProviderIds :
                Within(c) /\ GetCustomer(c, r, id)
        \/ \E s \in {"", "sub_1"}, r \in {"ok", "fail"} :
                Within(c) /\ CancelSubscription(c, s, r)
        \/ \E s \in Signatures, t \in EventTypes \cup {UnknownEventType} :
                Within(c) /\ Webhook(c, s, t)
        \/ \E m \in Methods, p \in Paths : Within(c) /\ Unmatched(c, m, p)
        \/ \E m \in Methods, p \in Paths : Within(c) /\ BadBody(c, m, p)
        \/ WindowExpires(c)

Spec == Init /\ [][Next]_vars

\* SpecLimiter: two clients send enough requests to exhaust their windows:
\* to a route that calls the provider, to a path under /api/ no route
\* matches, to a path outside /api/, and preflights.
InitLimiter == Init /\ env = "unset"

NextLimiter ==
    \E c \in Clients :
        \/ Preflight(c, "/api/nope", "https://evil.example")
        \/ Health(c)
        \/ CreateCustomer(c, "a@x.io", "ok", "id_A")
        \/ Unmatched(c, "GET", "/api/nope")
        \/ WindowExpires(c)

SpecLimiter == InitLimiter /\ [][NextLimiter]_vars

\* ------------------------------------------------------------------------
\* Properties
\* ------------------------------------------------------------------------

\* The last request reached the handler named h.
Reached(h) == handler = h

\* The operations of the provider calls made, in order.
Ops == [i \in 1..Len(calls) |-> calls[i].op]

\* round(milli / 10), halves rounded away from zero: the number of minor
\* units of the decimal amount milli/1000.
RoundHalfAway(milli) ==
    IF milli >= 0 THEN (milli + 5) \div 10 ELSE -((5 - milli) \div 10)

\* C1: a create-payment-intent request that reaches the handler with an
\* amount that is missing or below 0.50 (zero and negative included) is
\* answered 400 and makes no provider call.
C1_BelowMinimumRejected ==
    (Reached("createPaymentIntent")
        /\ (~req.args.amount.present \/ req.args.amount.milli < 500))
    => /\ res.status = 400
       /\ res.error = "Invalid amount. Minimum amount is $0.50"
       /\ calls = <<>>

\* An amount of 0.499 was rejected.
C1_Witness ==
    /\ Reached("createPaymentIntent")
    /\ req.args.amount = [present |-> TRUE, milli |-> 499]
    /\ res.status = 400
    /\ calls = <<>>

\* C2: a webhook request whose signature does not verify is answered 400 with
\* the verification error text, and the dispatch switch is not reached.
C2_BadSignatureRejected ==
    (Reached("webhook") /\ req.args.sig # "valid")
    => /\ res.status = 400
       /\ res.body = "text"
       /\ res.error = "Webhook Error"
       /\ res.message \in {"No stripe-signature header value was provided.",
                           "No signatures found matching the expected signature for payload."}
       /\ dispatched = "none"

\* A webhook without a signature header was rejected.
C2_Witness ==
    /\ Reached("webhook")
    /\ req.args.sig = "missing"
    /\ res.status = 400
    /\ dispatched = "none"

\* C3: a webhook request whose signature verifies is answered with
\* {received: true}, whatever its event type, recognized or not.
C3_VerifiedAcknowledged ==
    (Reached("webhook") /\ req.args.sig = "valid")
    => /\ res.status = 200
       /\ res.body = "received"
       /\ dispatched = (IF req.args.type \in EventTypes THEN req.args.type
                        ELSE "default")

\* An event of a type the switch has no case for was acknowledged.
C3_Witness ==
    /\ Reached("webhook")
    /\ req.args.sig = "valid"
    /\ req.args.type = UnknownEventType
    /\ dispatched = "default"
    /\ res.body = "received"

\* C4: the limiter counts per client.  A request of a client to a path under
\* /api/ that the limiter counts is rejected with the rate-limit message and
\* reaches no handler exactly when the client already has 100 counted in the
\* window (so the 101st is rejected, and the first of a new window, counted
\* from zero, is admitted); no request changes another client's count.
C4_RateLimitPerClient ==
    [][\A c \in Clients :
          (req'.client = c /\ hits'[c] = hits[c] + 1)
          => /\ hits[c] >= RateMax
                => /\ res'.status = 429
                   /\ res'.message = RateLimitMessage
                   /\ handler' = "limiter"
                   /\ calls' = <<>>
             /\ hits[c] < RateMax
                => /\ res'.status # 429
                   /\ handler' # "limiter"
             /\ \A d \in Clients \ {c} : hits'[d] = hits[d]]_vars

\* A client's 101st request of the window was rejected while the other
\* client, with requests counted too, was still below the limit.
C4_Witness ==
    /\ handler = "limiter"
    /\ res.status = 429
    /\ hits[req.client] = RateMax + 1
    /\ \E d \in Clients \ {req.client} : hits[d] \in 1..RateMax

\* C5: a preflight request to any path, whatever its Origin, is answered 200
\* with the CORS headers, Access-Control-Allow-Origin echoing the Origin.
C5_PreflightEchoesOrigin ==
    (req.method = "OPTIONS" /\ req.origin # "none")
    => /\ res.status = 200
       /\ res.corsHeaders
       /\ res.acao = req.origin

\* C6, as stated: a request with any method to a path no route matches is
\* answered 404 {error: 'Route not found'}.
C6_UnmatchedAlways404 ==
    (req.client # "none" /\ \A m \in Methods : MatchRoute(m, req.path) = "none")
    => /\ res.status = 404
       /\ res.error = "Route not found"

\* C6, amended: a request no route matches, whose method is not OPTIONS, whose
\* body parses and which the rate limiter admits, is answered
\* 404 {error: 'Route not found'} without any provider call.
C6_UnmatchedAdmitted404 ==
    (/\ req.client # "none"
     /\ MatchRoute(req.method, req.path) = "none"
     /\ req.method # "OPTIONS"
     /\ req.body # "malformed"
     /\ handler # "limiter")
    => /\ res.status = 404
       /\ res.body = "error"
       /\ res.error = "Route not found"
       /\ handler = "notFound"
       /\ calls = <<>>

\* A DELETE to a path under /api/ that no route matches was answered 404.
C6_Witness ==
    /\ req.method = "DELETE"
    /\ req.path = "/api/nope"
    /\ req.body = "ok"
    /\ res.status = 404
    /\ res.error = "Route not found"

\* C7: in create-subscription with customerId and priceId present, the
\* provider calls are an initial part of attach, update, create when a
\* paymentMethodId is given, and create alone when it is not; every call but
\* the last succeeded; a failed call is the last one and the response is 500;
\* with no failure every call of the list is made.
C7_SubscriptionCallOrder ==
    (/\ Reached("createSubscription")
     /\ req.args.customerId # ""
     /\ req.args.priceId # "")
    => LET planned == IF req.args.paymentMethodId # ""
                      THEN <<"paymentMethods.attach", "customers.update",
                             "subscriptions.create">>
                      ELSE <<"subscriptions.create">>
           n == Len(calls)
       IN  /\ n \in 1..Len(planned)
           /\ Ops = SubSeq(planned, 1, n)
           /\ \A i \in 1..(n - 1) : calls[i].ok
           /\ ~calls[n].ok => res.status = 500
           /\ calls[n].ok => n = Len(planned)
           /\ req.args.paymentMethodId # ""
              => /\ calls[1].arg = req.args.paymentMethodId
                 /\ n >= 2 => calls[2].arg = req.args.customerId

\* The update of the customer failed after the attach succeeded: the
\* subscription was not created and the response was 500.
C7_Witness ==
    /\ Reached("createSubscription")
    /\ Len(calls) = 2
    /\ calls[1].ok
    /\ ~calls[2].ok
    /\ res.status = 500

\* C8: create-customer without an email, create-subscription without a
\* customerId or priceId and cancel-subscription without a subscriptionId are
\* answered 400 with their message and make no provider call; create-customer
\* with an email the provider accepts returns the id the provider assigned.
C8_ValidationBeforeProvider ==
    /\ (Reached("createCustomer") /\ req.args.email = "")
       => (res.status = 400 /\ res.error = "Email is required" /\ calls = <<>>)
    /\ (Reached("createSubscription")
          /\ (req.args.customerId = "" \/ req.args.priceId = ""))
       => (/\ res.status = 400
           /\ res.error = "Customer ID and Price ID are required"
           /\ calls = <<>>)
    /\ (Reached("cancelSubscription") /\ req.args.subscriptionId = "")
       => (/\ res.status = 400
           /\ res.error = "Subscription ID is required"
           /\ calls = <<>>)
    /\ (Reached("createCustomer") /\ req.args.email # "" /\ calls # <<>>
          /\ calls[Len(calls)].ok)
       => (/\ res.status = 200
           /\ Len(calls) = 1
           /\ calls[1].returned \in ProviderIds
           /\ res.id = calls[1].returned)

\* A create-customer request without an email was rejected.
C8_Witness ==
    /\ Reached("createCustomer")
    /\ req.args.email = ""
    /\ res.status = 400
    /\ calls = <<>>

\* C9: for an amount of at least 0.50 exactly one create-payment-intent call
\* is made, and the amount sent is round(amount x 100), halves rounded away
\* from zero.
C9_AmountInMinorUnits ==
    (/\ Reached("createPaymentIntent")
     /\ req.args.amount.present
     /\ req.args.amount.milli >= 500)
    => /\ Len(calls) = 1
       /\ calls[1].op = "paymentIntents.create"
       /\ calls[1].amount = RoundHalfAway(req.args.amount.milli)

\* C10: an error that reaches the final error-handling layer is answered 500,
\* with the real error message unless NODE_ENV is 'production' and with the
\* generic message in production.
C10_ErrorMessageByEnvironment ==
    Reached("errorHandler")
    => /\ res.status = 500
       /\ res.message = IF env = "production" THEN GenericMessage
                        ELSE ParseErrorMessage

====
